---- MODULE Spec2Model ----
(***************************************************************************)
(* FCMC, the Formal Circuit Minimization Compiler.                         *)
(*                                                                         *)
(* Part 1: the compiler driver of src/src/lib.rs: the FCMC configuration,  *)
(* its builder methods, FCMC::compile taken one pipeline stage per step,   *)
(* and CompiledCircuit::optimization_ratio.                                *)
(* Part 2: the recursive-descent parser of src/src/frontend/parser.rs.     *)
(*                                                                         *)
(* The stages called by compile (frontend::parse_source, IRGraph::from_ast,*)
(* OptimizationFramework, backend::compile_to_target, verify_circuit) live *)
(* in modules whose code is not part of the source tree; each is modelled  *)
(* by the outcomes its signature allows: Ok with some value, or Err.       *)
(***************************************************************************)
EXTENDS Integers, Sequences, FiniteSets, TLC

VARIABLES
    fcmc,       \* the FCMC struct: optimization_level, target_system, verify_output
    pc,         \* position of the driver: "config", a stage of compile, or "done"
    ast,        \* local `ast` of compile
    ir,         \* local `ir` of compile
    circuit,    \* local `circuit` of compile
    calls,      \* every call compile has made into another module, in order
    result,     \* what compile returned: NoResult, Ok(CompiledCircuit) or Err
    ratio,      \* what optimization_ratio returned on `result`, or NoRatio
    tokens,     \* Parser.tokens: the kinds of the tokens the parser was given, as
                \* far as the run has looked (token i, counted from 0, is tokens[i + 1])
    ended,      \* TRUE once tokens.len() is known to be Len(tokens)
    position,   \* Parser.position
    symbol_table, \* Parser.symbol_table
    stack,      \* the parser's call stack: one frame per active parse_* call
    ret,        \* the value the last parse_* call returned
    status,     \* "idle", "running", "ok", "err", "panic" or "external"
    error,      \* the message of the ParseError returned, or the missing callee
    read_index, \* the index of the last tokens[..] access, NoRead before the first
    entered     \* history: per frame of `stack`, the cursor when the call began or,
                \* in a loop, when its current pass through the loop body began

driverVars == <<fcmc, pc, ast, ir, circuit, calls, result, ratio>>
parserVars ==
    <<tokens, ended, position, symbol_table, stack, ret, status, error, read_index,
      entered>>
vars == <<driverVars, parserVars>>

----------------------------------------------------------------------------
(* Bounds *)

\* largest optimization level tried (the field is a u8)
MaxLevel == 3
\* largest node_count() an IR graph reports
MaxNodes == 3
\* largest constraint_count() a backend circuit reports
MaxConstraints == 2
\* largest value of a CompilationStats field built directly by a caller
MaxStat == 7
\* most tokens by which a token vector handed to the parser goes on after it
\* departs from a sample program
MaxFree == 2

----------------------------------------------------------------------------
(* Values *)

\* backend::TargetSystem; R1CS is the variant lib.rs names, "Other" any further one
TargetSystem == {"R1CS", "Other"}

\* the variants of FCMCError
FCMCError ==
    {"ParseError", "TypeError", "SemanticError", "OptimizationError",
     "BackendError", "VerificationError"}

NoAst == "no_ast"
NoGraph == [id |-> "none", nodes |-> 0]
NoCircuit == [ir |-> NoGraph, target |-> "none", constraints |-> 0]
NoStats == [original_nodes |-> 0, optimized_nodes |-> 0, constraint_count |-> 0]
NoResult == [tag |-> "none", error |-> "none", ir |-> NoGraph,
             circuit |-> NoCircuit, stats |-> NoStats]

\* Result<CompiledCircuit, FCMCError>
Ok(i, c, s) == [tag |-> "Ok", error |-> "none", ir |-> i, circuit |-> c, stats |-> s]
Err(e) == [tag |-> "Err", error |-> e, ir |-> NoGraph,
           circuit |-> NoCircuit, stats |-> NoStats]

\* one call out of compile: the callee, its arguments (the level, graph or circuit
\* it was handed), the graph it returned (NoGraph when it returns none) and the
\* error it returned ("none" when it returned Ok)
Call(stage, level, g, c, r, e) ==
    [stage |-> stage, level |-> level, ir |-> g, circuit |-> c, ret |-> r, err |-> e]

\* ir.node_count() and circuit.constraint_count()
node_count(g) == g.nodes
constraint_count(c) == c.constraints


----------------------------------------------------------------------------
(* f64 arithmetic of optimization_ratio, IEEE 754 binary64 with rounding to  *)
(* nearest, ties to even.  A finite value other than 0 is                    *)
(*     (-1)^neg * mant * 2^exp,                                              *)
(* mant being MantissaBits binary digits, the first of them 1, written with  *)
(* the most significant digit first.  Every operation rounds its exact       *)
(* result to such a value, so a quotient is rounded before it is multiplied. *)
(* The operands optimization_ratio has are whole numbers far below 2^53 (two *)
(* counts, their difference, the literal 100.0) and the quotient of two such *)
(* numbers; no result is subnormal or overflows.                             *)

\* the binary digits of a significand, the implicit leading 1 included
MantissaBits == 53

Zero == [kind |-> "zero", neg |-> FALSE, mant |-> <<>>, exp |-> 0]
NaN == [kind |-> "NaN", neg |-> FALSE, mant |-> <<>>, exp |-> 0]
Infinity(neg) == [kind |-> "inf", neg |-> neg, mant |-> <<>>, exp |-> 0]
NoRatio == [kind |-> "none", neg |-> FALSE, mant |-> <<>>, exp |-> 0]
Finite(neg, mant, exp) == [kind |-> "finite", neg |-> neg, mant |-> mant, exp |-> exp]

Abs(n) == IF n < 0 THEN -n ELSE n

\* the binary digits of a natural number, none for 0
RECURSIVE BitsOf(_)
BitsOf(n) == IF n = 0 THEN <<>> ELSE Append(BitsOf(n \div 2), n % 2)

\* the natural number with the given binary digits
RECURSIVE ValueOf(_)
ValueOf(digits) ==
    IF digits = <<>>
    THEN 0
    ELSE 2 * ValueOf(SubSeq(digits, 1, Len(digits) - 1)) + digits[Len(digits)]

\* digits with zeros put before them to make n digits
Padded(digits, n) == [i \in 1..(n - Len(digits)) |-> 0] \o digits

\* digits without the zeros they begin with
Stripped(digits) ==
    LET ones == {i \in 1..Len(digits) : digits[i] = 1}
    IN IF ones = {}
       THEN <<>>
       ELSE SubSeq(digits, CHOOSE i \in ones : \A j \in ones : i <= j, Len(digits))

\* the digits of the number one greater
Successor(digits) ==
    LET zeros == {i \in 1..Len(digits) : digits[i] = 0}
        last == CHOOSE i \in zeros : \A j \in zeros : j <= i
    IN IF zeros = {}
       THEN <<1>> \o [i \in 1..Len(digits) |-> 0]
       ELSE [i \in 1..Len(digits) |->
                IF i < last THEN digits[i] ELSE IF i = last THEN 1 ELSE 0]

\* the digits of digits * k + carry, for a small natural number k, worked out
\* 8 digits at a time
RECURSIVE Times(_, _, _)
Times(digits, k, carry) ==
    IF Len(digits) <= 8
    THEN BitsOf(ValueOf(digits) * k + carry)
    ELSE LET t == ValueOf(SubSeq(digits, Len(digits) - 7, Len(digits))) * k
                      + carry
         IN Times(SubSeq(digits, 1, Len(digits) - 8), k, t \div (256))
                \o Padded(BitsOf(t % (256)), 8)

\* the first `count` binary digits after the point of r / d, for r < d, and
\* what is left of r after them, worked out 8 digits at a time
RECURSIVE FractionDigits(_, _, _)
FractionDigits(r, d, count) ==
    IF count <= 8
    THEN [digits |-> Padded(BitsOf((r * 2^count) \div d), count),
          remainder |-> (r * 2^count) % d]
    ELSE LET rest == FractionDigits((r * 256) % d, d, count - 8)
         IN [digits |-> Padded(BitsOf((r * 256) \div d), 8) \o rest.digits,
             remainder |-> rest.remainder]

\* The f64 nearest to an exact result, ties to even.  The exact result is
\* digits * 2^exp (at least MantissaBits digits, the first of them 1), and a
\* little more than that, less than 2^exp, when `inexact`.
Round(neg, digits, exp, inexact) ==
    LET kept == SubSeq(digits, 1, MantissaBits)
        dropped == SubSeq(digits, MantissaBits + 1, Len(digits))
        half == dropped # <<>> /\ dropped[1] = 1
        more == inexact \/ \E i \in 2..Len(dropped) : dropped[i] = 1
        up == half /\ (more \/ kept[MantissaBits] = 1)
        rounded == IF up THEN Successor(kept) ELSE kept
    IN IF Len(rounded) > MantissaBits
       THEN Finite(neg, SubSeq(rounded, 1, MantissaBits), exp + Len(dropped) + 1)
       ELSE Finite(neg, rounded, exp + Len(dropped))

\* the f64 that is the whole number n, |n| < 2^53
Whole(n) ==
    IF n = 0
    THEN Zero
    ELSE Finite(n < 0,
                BitsOf(Abs(n)) \o [i \in 1..(MantissaBits - Len(BitsOf(Abs(n)))) |-> 0],
                Len(BitsOf(Abs(n))) - MantissaBits)

\* the whole number that the f64 a is, a being one
Integer(a) ==
    IF a.kind = "zero"
    THEN 0
    ELSE (IF a.neg THEN -1 ELSE 1) * ValueOf(SubSeq(a.mant, 1, MantissaBits + a.exp))

\* `n as f64` for a usize n (exact below 2^53)
AsF64(n) == Whole(n)

\* a - b for two whole numbers: the difference is a whole number below 2^53
\* and the subtraction is exact
F64Sub(a, b) == Whole(Integer(a) - Integer(b))

\* a * b, b a whole number: the product of a's digits and b, rounded
F64Mul(a, b) ==
    IF a.kind = "NaN" \/ b.kind = "NaN" THEN NaN
    ELSE IF a.kind = "inf"
    THEN IF b.kind = "zero" THEN NaN ELSE Infinity(a.neg # b.neg)
    ELSE IF a.kind = "zero" \/ b.kind = "zero" THEN Zero
    ELSE Round(a.neg # b.neg, Times(a.mant, Abs(Integer(b)), 0), a.exp, FALSE)

\* the binary digits of n / d for n, d > 0, from the first 1 on, one digit more
\* than a significand holds: the digits, how many of them stand after the
\* binary point, and what is left of n after them
LongDivision(n, d) ==
    LET whole == BitsOf(n \div d)
        zeros == CHOOSE z \in 0..31 : (n % d) * 2^(z + 1) >= d
        after == IF whole = <<>>
                 THEN zeros + MantissaBits + 1
                 ELSE MantissaBits + 1 - Len(whole)
        fraction == FractionDigits(n % d, d, after)
    IN [digits |-> Stripped(whole \o fraction.digits),
        after |-> after,
        remainder |-> fraction.remainder]

\* a / b for two whole numbers: the quotient, rounded
F64Div(a, b) ==
    IF a.kind = "NaN" \/ b.kind = "NaN" THEN NaN
    ELSE IF b.kind = "zero"
    THEN IF a.kind = "zero" THEN NaN ELSE Infinity(a.neg # b.neg)
    ELSE IF a.kind = "zero" THEN Zero
    ELSE LET q == LongDivision(Abs(Integer(a)), Abs(Integer(b)))
         IN Round(a.neg # b.neg, q.digits, -q.after, q.remainder # 0)

\* mutant of optimization_ratio: the original_nodes > 0 guard is missing
optimization_ratio_unguarded(self) ==
    LET reduction ==
            F64Sub(AsF64(self.stats.original_nodes), AsF64(self.stats.optimized_nodes))
    IN F64Mul(F64Div(reduction, AsF64(self.stats.original_nodes)), AsF64(100))

\* CompiledCircuit::optimization_ratio
optimization_ratio(self) ==
    IF self.stats.original_nodes > 0
    THEN LET reduction ==
                 F64Sub(AsF64(self.stats.original_nodes),
                        AsF64(self.stats.optimized_nodes))
         IN F64Mul(F64Div(reduction, AsF64(self.stats.original_nodes)),
                   AsF64(100))
    ELSE AsF64(0)

\* no parser is running (the driver reaches it only through parse_source)
NoRead == -1
ParserIdle ==
    /\ tokens = <<>>
    /\ ended = FALSE
    /\ position = 0
    /\ symbol_table = {}
    /\ stack = <<>>
    /\ ret = <<>>
    /\ status = "idle"
    /\ error = "none"
    /\ read_index = NoRead
    /\ entered = <<>>

----------------------------------------------------------------------------
(* FCMC: construction and configuration *)

\* FCMC::new
new ==
    /\ fcmc = [optimization_level |-> 2, target_system |-> "R1CS",
               verify_output |-> TRUE]
    /\ pc = "config"
    /\ ast = NoAst
    /\ ir = NoGraph
    /\ circuit = NoCircuit
    /\ calls = <<>>
    /\ result = NoResult
    /\ ratio = NoRatio
    /\ ParserIdle

\* FCMC::with_optimization_level
with_optimization_level(level) ==
    /\ pc = "config"
    /\ fcmc' = [fcmc EXCEPT !.optimization_level = level]
    /\ UNCHANGED <<pc, ast, ir, circuit, calls, result, ratio>>
    /\ UNCHANGED parserVars

\* FCMC::with_target
with_target(target) ==
    /\ pc = "config"
    /\ fcmc' = [fcmc EXCEPT !.target_system = target]
    /\ UNCHANGED <<pc, ast, ir, circuit, calls, result, ratio>>
    /\ UNCHANGED parserVars

----------------------------------------------------------------------------
(* FCMC::compile, one stage per step.  `?` returns the callee's error.       *)

\* the `?` operator on a failed call: compile returns Err(e) at once
Propagate(e) ==
    /\ result' = Err(e)
    /\ pc' = "done"

\* 1. let ast = frontend::parse_source(source)?;
compile_parse_source ==
    /\ pc = "config"
    /\ \/ /\ calls' = Append(calls, Call("parse_source", 0, NoGraph, NoCircuit, NoGraph, "none"))
          /\ ast' = "ast"
          /\ pc' = "from_ast"
          /\ UNCHANGED result
       \/ \E e \in FCMCError :
             /\ calls' = Append(calls, Call("parse_source", 0, NoGraph, NoCircuit, NoGraph, e))
             /\ Propagate(e)
             /\ UNCHANGED ast
    /\ UNCHANGED <<fcmc, ir, circuit, ratio>>
    /\ UNCHANGED parserVars

\* mutant of compile_from_ast: a failed from_ast is replaced by an empty graph
\* (unwrap_or_default) and the pipeline goes on
compile_from_ast_unwrap_or_default ==
    /\ pc = "from_ast"
    /\ \/ \E n \in 0..MaxNodes :
             /\ calls' = Append(calls, Call("from_ast", 0, NoGraph, NoCircuit,
                                            [id |-> "initial", nodes |-> n], "none"))
             /\ ir' = [id |-> "initial", nodes |-> n]
       \/ \E e \in FCMCError :
             /\ calls' = Append(calls, Call("from_ast", 0, NoGraph, NoCircuit, NoGraph, e))
             /\ ir' = [id |-> "initial", nodes |-> 0]
    /\ pc' = "optimize"
    /\ UNCHANGED <<fcmc, ast, circuit, ratio, result>>
    /\ UNCHANGED parserVars

\* 2. let mut ir = ir::IRGraph::from_ast(&ast)?;
compile_from_ast ==
    /\ pc = "from_ast"
    /\ \/ \E n \in 0..MaxNodes :
             /\ calls' = Append(calls, Call("from_ast", 0, NoGraph, NoCircuit,
                                            [id |-> "initial", nodes |-> n], "none"))
             /\ ir' = [id |-> "initial", nodes |-> n]
             /\ pc' = "optimize"
             /\ UNCHANGED result
       \/ \E e \in FCMCError :
             /\ calls' = Append(calls, Call("from_ast", 0, NoGraph, NoCircuit, NoGraph, e))
             /\ Propagate(e)
             /\ UNCHANGED ir
    /\ UNCHANGED <<fcmc, ast, circuit, ratio>>
    /\ UNCHANGED parserVars

\* the guard of step 3: if self.optimization_level > 0
optimization_enabled(self) == self.optimization_level > 0

\* mutant of set_level_argument: the default level instead of the configured one
set_level_default(self) == 2

\* the argument of optimizer.set_level
set_level_argument(self) == self.optimization_level

\* mutant of compile_optimize: optimize is run a second time on its own output
compile_optimize_twice ==
    /\ pc = "optimize"
    /\ IF optimization_enabled(fcmc)
       THEN LET configured ==
                    Append(calls, Call("set_level", set_level_argument(fcmc),
                                       NoGraph, NoCircuit, NoGraph, "none"))
            IN \E m \in 0..MaxNodes :
                 LET g == [id |-> "optimized", nodes |-> m]
                 IN /\ calls' = configured \o
                                 <<Call("optimize", 0, ir, NoCircuit, g, "none"),
                                   Call("optimize", 0, g, NoCircuit, g, "none")>>
                    /\ ir' = g
       ELSE UNCHANGED <<ir, calls>>
    /\ pc' = "backend"
    /\ UNCHANGED <<fcmc, ast, circuit, ratio, result>>
    /\ UNCHANGED parserVars

\* 3. if self.optimization_level > 0 { set_level; ir = optimizer.optimize(ir)?; }
compile_optimize ==
    /\ pc = "optimize"
    /\ IF optimization_enabled(fcmc)
       THEN LET configured ==
                    Append(calls, Call("set_level", set_level_argument(fcmc),
                                       NoGraph, NoCircuit, NoGraph, "none"))
            IN \/ \E m \in 0..MaxNodes :
                    /\ calls' = Append(configured, Call("optimize", 0, ir, NoCircuit,
                                           [id |-> "optimized", nodes |-> m], "none"))
                    /\ ir' = [id |-> "optimized", nodes |-> m]
                    /\ pc' = "backend"
                    /\ UNCHANGED result
               \/ \E e \in FCMCError :
                    /\ calls' = Append(configured, Call("optimize", 0, ir, NoCircuit, NoGraph, e))
                    /\ Propagate(e)
                    /\ UNCHANGED ir
       ELSE /\ pc' = "backend"
            /\ UNCHANGED <<ir, calls, result>>
    /\ UNCHANGED <<fcmc, ast, circuit, ratio>>
    /\ UNCHANGED parserVars

\* 4. let circuit = backend::compile_to_target(&ir, self.target_system)?;
compile_backend ==
    /\ pc = "backend"
    /\ \/ \E k \in 0..MaxConstraints :
             /\ calls' = Append(calls, Call("compile_to_target", 0, ir, NoCircuit, NoGraph, "none"))
             /\ circuit' = [ir |-> ir, target |-> fcmc.target_system, constraints |-> k]
             /\ pc' = "verify"
             /\ UNCHANGED result
       \/ \E e \in FCMCError :
             /\ calls' = Append(calls, Call("compile_to_target", 0, ir, NoCircuit, NoGraph, e))
             /\ Propagate(e)
             /\ UNCHANGED circuit
    /\ UNCHANGED <<fcmc, ast, ir, ratio>>
    /\ UNCHANGED parserVars

\* mutant of verification_enabled: the verifier is skipped
verification_skipped(self) == FALSE

\* the guard of step 5: if self.verify_output
verification_enabled(self) == self.verify_output

\* 5. if self.verify_output { utils::verification::verify_circuit(&circuit)?; }
compile_verify ==
    /\ pc = "verify"
    /\ IF verification_enabled(fcmc)
       THEN \/ /\ calls' = Append(calls, Call("verify_circuit", 0, NoGraph, circuit, NoGraph, "none"))
               /\ pc' = "return"
               /\ UNCHANGED result
            \/ \E e \in FCMCError :
                  /\ calls' = Append(calls, Call("verify_circuit", 0, NoGraph, circuit, NoGraph, e))
                  /\ Propagate(e)
       ELSE /\ pc' = "return"
            /\ UNCHANGED <<calls, result>>
    /\ UNCHANGED <<fcmc, ast, ir, circuit, ratio>>
    /\ UNCHANGED parserVars

\* the CompilationStats literal of the returned CompiledCircuit
CompilationStats(g, c) ==
    [original_nodes |-> 0,
     optimized_nodes |-> node_count(g),
     constraint_count |-> constraint_count(c)]

\* the calls compile has made to one callee
CallsTo(stage) == SelectSeq(calls, LAMBDA c : c.stage = stage)

\* the graph IRGraph::from_ast returned, before any optimization
InitialGraph == CallsTo("from_ast")[1].ret

\* mutant of returned_ir: the pre-optimization graph is returned
returned_initial_ir == InitialGraph

\* the graph moved into the returned CompiledCircuit
returned_ir == ir

\* Ok(CompiledCircuit { ir, circuit, stats })
compile_return ==
    /\ pc = "return"
    /\ result' = Ok(returned_ir, circuit, CompilationStats(ir, circuit))
    /\ pc' = "done"
    /\ UNCHANGED <<fcmc, ast, ir, circuit, calls, ratio>>
    /\ UNCHANGED parserVars

\* a caller reads optimization_ratio() off the circuit compile returned
call_optimization_ratio ==
    /\ pc = "done"
    /\ result.tag = "Ok"
    /\ ratio = NoRatio
    /\ ratio' = optimization_ratio(result)
    /\ UNCHANGED <<fcmc, pc, ast, ir, circuit, calls, result>>
    /\ UNCHANGED parserVars

\* a CompiledCircuit a caller holds: the struct and its fields are public, so
\* its stats can hold any counts
caller_built_circuit ==
    /\ fcmc = [optimization_level |-> 2, target_system |-> "R1CS",
               verify_output |-> TRUE]
    /\ pc = "done"
    /\ ast = NoAst
    /\ ir = NoGraph
    /\ circuit = NoCircuit
    /\ calls = <<>>
    /\ \E o \in 0..MaxStat, p \in 0..MaxStat :
          result = Ok([id |-> "caller", nodes |-> p],
                      [ir |-> [id |-> "caller", nodes |-> p],
                       target |-> "R1CS", constraints |-> 0],
                      [original_nodes |-> o, optimized_nodes |-> p,
                       constraint_count |-> 0])
    /\ ratio = NoRatio
    /\ ParserIdle

Init == new

Next ==
    \/ \E level \in 0..MaxLevel : with_optimization_level(level)
    \/ \E target \in TargetSystem : with_target(target)
    \/ compile_parse_source
    \/ compile_from_ast
    \/ compile_optimize
    \/ compile_backend
    \/ compile_verify
    \/ compile_return
    \/ call_optimization_ratio

Spec == Init /\ [][Next]_vars

\* optimization_ratio on its own, over every pair of counts up to MaxStat
InitRatio == caller_built_circuit
NextRatio == call_optimization_ratio
SpecRatio == InitRatio /\ [][NextRatio]_vars

----------------------------------------------------------------------------
(* Parser (src/src/frontend/parser.rs).                                      *)
(*                                                                           *)
(* The parser is run as a stack machine: one frame per active parse_* call,  *)
(* holding the callee's name, its program point and its locals; one step     *)
(* runs the code from one program point to the next call, return or loop     *)
(* test.  Every call site of a parse_* method applies `?` or is a tail       *)
(* call, so an Err unwinds to the caller of the entry method at once.        *)
(*                                                                           *)
(* The token vector is fixed before parsing starts; the model learns it one  *)
(* token at a time (reveal_token), when the cursor first reaches a token.    *)
(* The parser reads tokens only at `position` (peek) and `position - 1`      *)
(* (advance), so a run never depends on tokens not yet revealed.             *)
(* A token's lexeme is stood for by the token's index.  What the lexemes     *)
(* are is not fixed: where the code compares or converts a lexeme (the       *)
(* HashMap key of symbol_table.insert, n.parse(), Type::from_name,           *)
(* name == "main") every outcome is taken.                                   *)

\* language::ast::TokenKind, the kinds the parser names
TokenKind ==
    {"Fn", "Constraint", "Struct", "Let", "If", "Else", "For", "In", "Return",
     "Assert", "Identifier", "Number", "Field", "Bool", "U32",
     "LParen", "RParen", "LBrace", "RBrace", "LBracket", "RBracket",
     "Colon", "Comma", "Semicolon", "Arrow", "Range", "Equals",
     "EqualsEquals", "BangEquals", "Less", "LessEquals", "Greater",
     "GreaterEquals", "Plus", "Minus", "Star", "Slash", "Percent", "Bang"}

\* the operator a binary-operator token becomes
BinaryOp(kind) ==
    CASE kind = "EqualsEquals" -> "Eq"
      [] kind = "BangEquals" -> "Ne"
      [] kind = "Less" -> "Lt"
      [] kind = "LessEquals" -> "Le"
      [] kind = "Greater" -> "Gt"
      [] kind = "GreaterEquals" -> "Ge"
      [] kind = "Plus" -> "Add"
      [] kind = "Minus" -> "Sub"
      [] kind = "Star" -> "Mul"
      [] kind = "Slash" -> "Div"
      [] kind = "Percent" -> "Mod"

\* the operator a prefix-operator token becomes
UnaryOp(kind) ==
    CASE kind = "Minus" -> "Neg"
      [] kind = "Bang" -> "Not"

\* Parser::is_at_end
is_at_end == position >= Len(tokens)

\* Parser::peek, where it does not index out of bounds
peek == tokens[position + 1]

\* Parser::check
check(kind) == ~is_at_end /\ peek = kind

\* Parser::advance: the cursor after the call; the call reads the token before it
advance == IF ~is_at_end THEN position + 1 ELSE position

\* the index check() has read last: the cursor, unless the input has ended
Seen == IF is_at_end THEN read_index ELSE position

\* whether tokens[position] exists is known
Known == position < Len(tokens) \/ ended

Top == stack[Len(stack)]
Callers == SubSeq(stack, 1, Len(stack) - 1)

\* the program points whose step reads no token: it stores a returned value,
\* calls or returns without a look at tokens[position] or tokens.len()
Silent(f, l) ==
    \/ f = "parse_program" /\ l \in {"function", "constraint"}
    \/ f = "parse_function" /\ l = "return_type"
    \/ f = "parse_block" /\ l = "statement"
    \/ f = "parse_let_statement" /\ l = "var_type"
    \/ f = "parse_if_statement" /\ l = "else_if"
    \/ f = "parse_expression"
    \/ f = "parse_assignment" /\ l \in {"start", "value"}
    \/ f \in {"parse_equality", "parse_comparison", "parse_term", "parse_factor"}
          /\ l = "start"
    \/ f = "parse_unary" /\ l = "operand"

\* the running call is f, at program point l, and the token its step reads,
\* if it reads one, is known
At(f, l) ==
    /\ status = "running"
    /\ stack # <<>>
    /\ Top.fn = f
    /\ Top.pc = l
    /\ Silent(f, l) \/ Known

\* the locals of a parse_* call on entry
Frame(f) ==
    CASE f = "parse_program" ->
             [fn |-> f, pc |-> "loop", functions |-> <<>>, constraints |-> <<>>]
      [] f \in {"parse_function", "parse_constraint"} ->
             [fn |-> f, pc |-> "start", name |-> 0, params |-> <<>>,
              param_name |-> 0, return_type |-> <<"Unit">>]
      [] f = "parse_block" -> [fn |-> f, pc |-> "loop", statements |-> <<>>]
      [] f = "parse_let_statement" ->
             [fn |-> f, pc |-> "start", name |-> 0, var_type |-> <<"None">>]
      [] f = "parse_if_statement" ->
             [fn |-> f, pc |-> "start", condition |-> <<>>, then_branch |-> <<>>]
      [] f = "parse_for_statement" ->
             [fn |-> f, pc |-> "start", var_name |-> 0, start |-> <<>>, end |-> <<>>]
      [] f = "parse_assignment" -> [fn |-> f, pc |-> "start", expr |-> <<>>]
      [] f \in {"parse_equality", "parse_comparison", "parse_term", "parse_factor"} ->
             [fn |-> f, pc |-> "start", expr |-> <<>>, operator |-> "none"]
      [] f = "parse_unary" -> [fn |-> f, pc |-> "start", operator |-> "none"]
      [] f \in {"parse_primary", "parse_type"} -> [fn |-> f, pc |-> "start", name |-> 0]
      [] f = "parse_array" -> [fn |-> f, pc |-> "start", elements |-> <<>>]
      [] OTHER -> [fn |-> f, pc |-> "start"]

\* parse_function_call takes the callee's name
CallFrame(name) ==
    [fn |-> "parse_function_call", pc |-> "start", name |-> name, args |-> <<>>]

\* the methods whose body is `operand; while check(operator) { .. }`
BinaryLevels == {"parse_equality", "parse_comparison", "parse_term", "parse_factor"}

\* a call of f that goes on at program point l starts a pass through the body
\* of f's loop: `while !is_at_end()` of parse_program, `while !check(RBrace)` of
\* parse_block, the `loop` of a parameter list, the `while check(operator)` of
\* a binary level, the `loop` of an argument or element list
BeginsIteration(f, l) ==
    \/ f = "parse_program" /\ l \in {"function", "constraint"}
    \/ f = "parse_block" /\ l = "statement"
    \/ f \in {"parse_function", "parse_constraint"} /\ l = "param_name"
    \/ f \in BinaryLevels /\ l = "right"
    \/ f \in {"parse_function_call", "parse_array"} /\ l = "item"

\* `entered` after a step that leaves the cursor at pos and the stack as stk:
\* the callers keep their marks, a new frame is marked with the cursor, and the
\* running frame is marked anew when it starts a pass of its loop (a binary
\* level's pass starts before its operator, which the step has consumed)
Entered(pos, stk) ==
    [d \in 1..Len(stk) |->
        IF d < Len(stack) THEN entered[d]
        ELSE IF d > Len(stack) \/ stk[d].fn # Top.fn THEN pos
        ELSE IF BeginsIteration(stk[d].fn, stk[d].pc)
        THEN IF stk[d].fn \in BinaryLevels THEN position ELSE pos
        ELSE entered[d]]

\* one step of the running call: the cursor, the stack, the returned value and
\* the last index read after it
Move(pos, stk, r, read) ==
    /\ position' = pos
    /\ stack' = stk
    /\ ret' = r
    /\ read_index' = read
    /\ entered' = Entered(pos, stk)
    /\ status' = IF stk = <<>> THEN "ok" ELSE "running"
    /\ UNCHANGED <<tokens, ended, symbol_table, error, driverVars>>

\* the running call goes on, with its program point and locals as in `frame`
Goto(pos, frame, read) == Move(pos, Append(Callers, frame), ret, read)

\* the running call calls f and will go on at the program point of `frame`
Invoke(pos, frame, callee, read) ==
    Move(pos, Append(Append(Callers, frame), callee), ret, read)

\* the running call is replaced by a tail call
TailCall(pos, callee, read) == Move(pos, Append(Callers, callee), ret, read)

\* the running call returns Ok(value)
Return(pos, value, read) == Move(pos, Callers, value, read)

\* the running call returns Err(ParseError(message)); every caller applies `?`
Fail(message, read) ==
    /\ status' = "err"
    /\ error' = message
    /\ stack' = <<>>
    /\ read_index' = read
    /\ entered' = <<>>
    /\ UNCHANGED <<tokens, ended, position, symbol_table, ret, driverVars>>

\* tokens[position] with position >= tokens.len(): the index is out of bounds
\* and the thread panics
Panic ==
    /\ status' = "panic"
    /\ error' = "index out of bounds"
    /\ read_index' = position
    /\ UNCHANGED <<tokens, ended, position, symbol_table, stack, ret, entered,
                   driverVars>>

\* a call to a method the impl block does not define (parse_struct,
\* parse_return_statement, parse_assert_statement, parse_expression_statement):
\* the run leaves the code at hand
Missing(callee) ==
    /\ status' = "external"
    /\ error' = callee
    /\ read_index' = Seen
    /\ UNCHANGED <<tokens, ended, position, symbol_table, stack, ret, entered,
                   driverVars>>

\* Three sample programs, as token kinds:
\*   fn f(a: Field, b: T) -> Bool {
\*       if a { } else if b { } else { } for i in 0..3 { }
\*       let x: U32 = a; let y: T[3] = b; }
\*   constraint c() { f(a, b) + [1, 2] }
\*   constraint c() { x = y = a == b != c < d >= e - f - g * h / -i % !(j + k) }
SampleFunction ==
    <<"Fn", "Identifier", "LParen", "Identifier", "Colon", "Field", "Comma",
      "Identifier", "Colon", "Identifier", "RParen", "Arrow", "Bool", "LBrace",
      "If", "Identifier", "LBrace", "RBrace",
      "Else", "If", "Identifier", "LBrace", "RBrace",
      "Else", "LBrace", "RBrace",
      "For", "Identifier", "In", "Number", "Range", "Number", "LBrace", "RBrace",
      "Let", "Identifier", "Colon", "U32", "Equals", "Identifier", "Semicolon",
      "Let", "Identifier", "Colon", "Identifier", "LBracket", "Number", "RBracket",
      "Equals", "Identifier", "Semicolon",
      "RBrace">>

SampleConstraint ==
    <<"Constraint", "Identifier", "LParen", "RParen", "LBrace",
      "Identifier", "LParen", "Identifier", "Comma", "Identifier", "RParen",
      "Plus", "LBracket", "Number", "Comma", "Number", "RBracket",
      "RBrace">>

SampleExpression ==
    <<"Constraint", "Identifier", "LParen", "RParen", "LBrace",
      "Identifier", "Equals", "Identifier", "Equals",
      "Identifier", "EqualsEquals", "Identifier", "BangEquals",
      "Identifier", "Less", "Identifier", "GreaterEquals",
      "Identifier", "Minus", "Identifier", "Minus",
      "Identifier", "Star", "Identifier", "Slash", "Minus", "Identifier",
      "Percent", "Bang", "LParen", "Identifier", "Plus", "Identifier", "RParen",
      "RBrace">>

Samples == {SampleFunction, SampleConstraint, SampleExpression}

\* the length of the longest prefix that `tokens` shares with a sample program
RECURSIVE CommonPrefix(_, _)
CommonPrefix(sample, k) ==
    IF k < Len(tokens) /\ k < Len(sample) /\ tokens[k + 1] = sample[k + 1]
    THEN CommonPrefix(sample, k + 1)
    ELSE k

\* the number of tokens by which `tokens` goes on after it departs from the samples
Departure ==
    LET shared == {CommonPrefix(sample, 0) : sample \in Samples}
    IN Len(tokens) - (CHOOSE k \in shared : \A j \in shared : j <= k)

\* The token vectors the parser is run on: every vector that follows a sample
\* program for some length (possibly 0) and then goes on freely for at most
\* MaxFree tokens.  These include every vector of at most MaxFree tokens.
\* NextKinds is what the next token of such a vector can be.
NextKinds ==
    IF Departure < MaxFree
    THEN TokenKind
    ELSE {sample[Len(tokens) + 1] :
             sample \in {s \in Samples : /\ Len(s) > Len(tokens)
                                         /\ CommonPrefix(s, 0) = Len(tokens)}}

\* Parser::new
parser_new ==
    /\ tokens = <<>>
    /\ ended = FALSE
    /\ position = 0
    /\ symbol_table = {}
    /\ stack = <<>>
    /\ ret = <<>>
    /\ status = "new"
    /\ error = "none"
    /\ read_index = NoRead
    /\ entered = <<>>

\* the token vector handed to Parser::new, learnt at the cursor: one more token
\* of some kind, or no more tokens
reveal_token ==
    /\ status = "running"
    /\ ~Known
    /\ ~Silent(Top.fn, Top.pc)
    /\ \/ \E kind \in NextKinds :
             /\ tokens' = Append(tokens, kind)
             /\ UNCHANGED ended
       \/ /\ ended' = TRUE
          /\ UNCHANGED tokens
    /\ UNCHANGED <<position, symbol_table, stack, ret, status, error, read_index,
                   entered, driverVars>>

\* Parser::parse_program
parse_program ==
    \/ /\ status = "new"
       /\ status' = "running"
       /\ stack' = <<Frame("parse_program")>>
       /\ entered' = <<position>>
       /\ UNCHANGED <<tokens, ended, position, symbol_table, ret, error, read_index,
                      driverVars>>
    \/ /\ At("parse_program", "loop")
       /\ IF is_at_end
          THEN Return(position,
                      [functions |-> Top.functions, constraints |-> Top.constraints,
                       entry_point |-> "main"],
                      read_index)
          ELSE CASE peek = "Fn" ->
                        Invoke(position, [Top EXCEPT !.pc = "function"],
                               Frame("parse_function"), position)
                 [] peek = "Constraint" ->
                        Invoke(position, [Top EXCEPT !.pc = "constraint"],
                               Frame("parse_constraint"), position)
                 [] peek = "Struct" -> Missing("parse_struct")
                 [] OTHER -> Fail("Unexpected token at program level", position)
    \/ /\ At("parse_program", "function")
       /\ Goto(position, [Top EXCEPT !.pc = "loop", !.functions = Append(@, ret)],
               read_index)
    \/ /\ At("parse_program", "constraint")
       /\ Goto(position, [Top EXCEPT !.pc = "loop", !.constraints = Append(@, ret)],
               read_index)

\* the parameter list shared in shape by parse_function and parse_constraint:
\* `if !self.check(RParen) { loop { name; ':'; type; ',' } }`
ParameterList(f, colon_message) ==
    \/ /\ At(f, "params")
       /\ Goto(position,
               [Top EXCEPT !.pc = IF check("RParen") THEN "rparen" ELSE "param_name"],
               Seen)
    \/ /\ At(f, "param_name")
       /\ IF check("Identifier")
          THEN Goto(advance, [Top EXCEPT !.pc = "colon", !.param_name = position],
                    position)
          ELSE Goto(position, [Top EXCEPT !.pc = "rparen"], Seen)
    \/ /\ At(f, "colon")
       /\ IF check("Colon")
          THEN Invoke(advance, [Top EXCEPT !.pc = "param_type"], Frame("parse_type"),
                      position)
          ELSE Fail(colon_message, Seen)
    \/ /\ At(f, "param_type")
       /\ LET pushed == [Top EXCEPT !.params = Append(@, <<Top.param_name, ret>>)]
          IN IF check("Comma")
             THEN Goto(advance, [pushed EXCEPT !.pc = "param_name"], position)
             ELSE Goto(position, [pushed EXCEPT !.pc = "rparen"], Seen)

\* Parser::parse_function
parse_function ==
    \/ /\ At("parse_function", "start")
       /\ IF check("Fn")
          THEN Goto(advance, [Top EXCEPT !.pc = "name"], position)
          ELSE Fail("Expected 'fn'", Seen)
    \/ /\ At("parse_function", "name")
       /\ IF check("Identifier")
          THEN Goto(advance, [Top EXCEPT !.pc = "lparen", !.name = position], position)
          ELSE Fail("Expected function name", Seen)
    \/ /\ At("parse_function", "lparen")
       /\ IF check("LParen")
          THEN Goto(advance, [Top EXCEPT !.pc = "params"], position)
          ELSE Fail("Expected '('", Seen)
    \/ ParameterList("parse_function", "Expected ':' after parameter name")
    \/ /\ At("parse_function", "rparen")
       /\ IF check("RParen")
          THEN Goto(advance, [Top EXCEPT !.pc = "arrow"], position)
          ELSE Fail("Expected ')'", Seen)
    \/ /\ At("parse_function", "arrow")
       /\ IF check("Arrow")
          THEN Invoke(advance, [Top EXCEPT !.pc = "return_type"], Frame("parse_type"),
                      position)
          ELSE Goto(position, [Top EXCEPT !.pc = "lbrace"], Seen)
    \/ /\ At("parse_function", "return_type")
       /\ Goto(position, [Top EXCEPT !.pc = "lbrace", !.return_type = ret], read_index)
    \/ /\ At("parse_function", "lbrace")
       /\ IF check("LBrace")
          THEN Invoke(advance, [Top EXCEPT !.pc = "body"], Frame("parse_block"),
                      position)
          ELSE Fail("Expected '{'", Seen)
    \/ /\ At("parse_function", "body")
       /\ IF check("RBrace")
          THEN \E is_public \in BOOLEAN :
                  Return(advance,
                         [name |-> Top.name, params |-> Top.params,
                          return_type |-> Top.return_type, body |-> ret,
                          is_public |-> is_public],
                         position)
          ELSE Fail("Expected '}'", Seen)

\* Parser::parse_constraint
parse_constraint ==
    \/ /\ At("parse_constraint", "start")
       /\ IF check("Constraint")
          THEN Goto(advance, [Top EXCEPT !.pc = "name"], position)
          ELSE Fail("Expected 'constraint'", Seen)
    \/ /\ At("parse_constraint", "name")
       /\ IF check("Identifier")
          THEN Goto(advance, [Top EXCEPT !.pc = "lparen", !.name = position], position)
          ELSE Fail("Expected constraint name", Seen)
    \/ /\ At("parse_constraint", "lparen")
       /\ IF check("LParen")
          THEN Goto(advance, [Top EXCEPT !.pc = "params"], position)
          ELSE Fail("Expected '('", Seen)
    \/ ParameterList("parse_constraint", "Expected ':'")
    \/ /\ At("parse_constraint", "rparen")
       /\ IF check("RParen")
          THEN Goto(advance, [Top EXCEPT !.pc = "lbrace"], position)
          ELSE Fail("Expected ')'", Seen)
    \/ /\ At("parse_constraint", "lbrace")
       /\ IF check("LBrace")
          THEN Invoke(advance, [Top EXCEPT !.pc = "body"], Frame("parse_expression"),
                      position)
          ELSE Fail("Expected '{'", Seen)
    \/ /\ At("parse_constraint", "body")
       /\ IF check("RBrace")
          THEN Return(advance,
                      [name |-> Top.name, params |-> Top.params, body |-> ret],
                      position)
          ELSE Fail("Expected '}'", Seen)

\* Parser::parse_block
parse_block ==
    \/ /\ At("parse_block", "loop")
       /\ IF ~check("RBrace") /\ ~is_at_end
          THEN Invoke(position, [Top EXCEPT !.pc = "statement"],
                      Frame("parse_statement"), position)
          ELSE Return(position, Top.statements, Seen)
    \/ /\ At("parse_block", "statement")
       /\ Goto(position, [Top EXCEPT !.pc = "loop", !.statements = Append(@, ret)],
               read_index)

\* Parser::parse_statement
parse_statement ==
    /\ At("parse_statement", "start")
    /\ IF is_at_end
       THEN Panic
       ELSE CASE peek = "Let" -> TailCall(position, Frame("parse_let_statement"), position)
              [] peek = "If" -> TailCall(position, Frame("parse_if_statement"), position)
              [] peek = "For" -> TailCall(position, Frame("parse_for_statement"), position)
              [] peek = "Return" -> Missing("parse_return_statement")
              [] peek = "Assert" -> Missing("parse_assert_statement")
              [] OTHER -> Missing("parse_expression_statement")

\* Parser::parse_let_statement.  symbol_table.insert(name, t) replaces the entry
\* whose key is the same string as `name`, if there is one: at most one entry,
\* and which one the lexemes decide.
parse_let_statement ==
    \/ /\ At("parse_let_statement", "start")
       /\ IF check("Let")
          THEN Goto(advance, [Top EXCEPT !.pc = "name"], position)
          ELSE Fail("Expected 'let'", Seen)
    \/ /\ At("parse_let_statement", "name")
       /\ IF check("Identifier")
          THEN Goto(advance, [Top EXCEPT !.pc = "colon", !.name = position], position)
          ELSE Fail("Expected variable name", Seen)
    \/ /\ At("parse_let_statement", "colon")
       /\ IF check("Colon")
          THEN Invoke(advance, [Top EXCEPT !.pc = "var_type"], Frame("parse_type"),
                      position)
          ELSE Goto(position, [Top EXCEPT !.pc = "equals"], Seen)
    \/ /\ At("parse_let_statement", "var_type")
       /\ Goto(position, [Top EXCEPT !.pc = "equals", !.var_type = <<"Some", ret>>],
               read_index)
    \/ /\ At("parse_let_statement", "equals")
       /\ IF check("Equals")
          THEN Invoke(advance, [Top EXCEPT !.pc = "value"], Frame("parse_expression"),
                      position)
          ELSE Fail("Expected '='", Seen)
    \/ /\ At("parse_let_statement", "value")
       /\ IF check("Semicolon")
          THEN /\ position' = advance
               /\ stack' = Callers
               /\ ret' = <<"Let", Top.name, Top.var_type, ret>>
               /\ read_index' = position
               /\ entered' = Entered(advance, Callers)
               /\ status' = IF Callers = <<>> THEN "ok" ELSE "running"
               /\ IF Top.var_type = <<"None">>
                  THEN symbol_table' = symbol_table
                  ELSE \E same \in SUBSET symbol_table :
                          /\ Cardinality(same) <= 1
                          /\ symbol_table' = (symbol_table \ same)
                                                 \cup {<<Top.name, Top.var_type[2]>>}
               /\ UNCHANGED <<tokens, ended, error, driverVars>>
          ELSE Fail("Expected ';'", Seen)

\* Parser::parse_if_statement
parse_if_statement ==
    \/ /\ At("parse_if_statement", "start")
       /\ IF check("If")
          THEN Invoke(advance, [Top EXCEPT !.pc = "condition"],
                      Frame("parse_expression"), position)
          ELSE Fail("Expected 'if'", Seen)
    \/ /\ At("parse_if_statement", "condition")
       /\ IF check("LBrace")
          THEN Invoke(advance, [Top EXCEPT !.pc = "then", !.condition = ret],
                      Frame("parse_block"), position)
          ELSE Fail("Expected '{'", Seen)
    \/ /\ At("parse_if_statement", "then")
       /\ IF check("RBrace")
          THEN Goto(advance, [Top EXCEPT !.pc = "else", !.then_branch = ret], position)
          ELSE Fail("Expected '}'", Seen)
    \/ /\ At("parse_if_statement", "else")
       /\ IF check("Else")
          THEN Goto(advance, [Top EXCEPT !.pc = "else_branch"], position)
          ELSE Return(position,
                      <<"If", Top.condition, Top.then_branch, <<"None">> >>, Seen)
    \/ /\ At("parse_if_statement", "else_branch")
       /\ IF check("LBrace")
          THEN Invoke(advance, [Top EXCEPT !.pc = "else_block"], Frame("parse_block"),
                      position)
          ELSE IF check("If")
          THEN Invoke(position, [Top EXCEPT !.pc = "else_if"],
                      Frame("parse_if_statement"), position)
          ELSE Return(position,
                      <<"If", Top.condition, Top.then_branch, <<"None">> >>, Seen)
    \/ /\ At("parse_if_statement", "else_block")
       /\ IF check("RBrace")
          THEN Return(advance,
                      <<"If", Top.condition, Top.then_branch, <<"Some", ret>> >>,
                      position)
          ELSE Fail("Expected '}'", Seen)
    \/ /\ At("parse_if_statement", "else_if")
       /\ Return(position,
                 <<"If", Top.condition, Top.then_branch, <<"Some", <<ret>> >> >>,
                 read_index)

\* Parser::parse_for_statement
parse_for_statement ==
    \/ /\ At("parse_for_statement", "start")
       /\ IF check("For")
          THEN Goto(advance, [Top EXCEPT !.pc = "var_name"], position)
          ELSE Fail("Expected 'for'", Seen)
    \/ /\ At("parse_for_statement", "var_name")
       /\ IF check("Identifier")
          THEN Goto(advance, [Top EXCEPT !.pc = "in", !.var_name = position], position)
          ELSE Fail("Expected loop variable", Seen)
    \/ /\ At("parse_for_statement", "in")
       /\ IF check("In")
          THEN Invoke(advance, [Top EXCEPT !.pc = "start_value"],
                      Frame("parse_expression"), position)
          ELSE Fail("Expected 'in'", Seen)
    \/ /\ At("parse_for_statement", "start_value")
       /\ IF check("Range")
          THEN Invoke(advance, [Top EXCEPT !.pc = "end_value", !.start = ret],
                      Frame("parse_expression"), position)
          ELSE Fail("Expected '..'", Seen)
    \/ /\ At("parse_for_statement", "end_value")
       /\ IF check("LBrace")
          THEN Invoke(advance, [Top EXCEPT !.pc = "body", !.end = ret],
                      Frame("parse_block"), position)
          ELSE Fail("Expected '{'", Seen)
    \/ /\ At("parse_for_statement", "body")
       /\ IF check("RBrace")
          THEN Return(advance, <<"For", Top.var_name, Top.start, Top.end, ret>>,
                      position)
          ELSE Fail("Expected '}'", Seen)

\* Parser::parse_expression
parse_expression ==
    /\ At("parse_expression", "start")
    /\ TailCall(position, Frame("parse_assignment"), read_index)

\* Parser::parse_assignment
parse_assignment ==
    \/ /\ At("parse_assignment", "start")
       /\ Invoke(position, [Top EXCEPT !.pc = "target"], Frame("parse_equality"),
                 read_index)
    \/ /\ At("parse_assignment", "target")
       /\ IF check("Equals")
          THEN Invoke(advance, [Top EXCEPT !.pc = "value", !.expr = ret],
                      Frame("parse_assignment"), position)
          ELSE Return(position, ret, Seen)
    \/ /\ At("parse_assignment", "value")
       /\ Return(position, <<"Assignment", Top.expr, ret>>, read_index)

\* the operator tokens of one binary level
Operators(f) ==
    CASE f = "parse_equality" -> {"EqualsEquals", "BangEquals"}
      [] f = "parse_comparison" -> {"Less", "LessEquals", "Greater", "GreaterEquals"}
      [] f = "parse_term" -> {"Plus", "Minus"}
      [] f = "parse_factor" -> {"Star", "Slash", "Percent"}

\* the method that parses the operands of one binary level
Operand(f) ==
    CASE f = "parse_equality" -> "parse_comparison"
      [] f = "parse_comparison" -> "parse_term"
      [] f = "parse_term" -> "parse_factor"
      [] f = "parse_factor" -> "parse_unary"

\* a binary level that builds its node with the operands exchanged
BinaryLevel_operands_exchanged(f) ==
    \/ /\ At(f, "start")
       /\ Invoke(position, [Top EXCEPT !.pc = "left"], Frame(Operand(f)), read_index)
    \/ /\ At(f, "left") \/ At(f, "right")
       /\ LET expr == IF Top.pc = "left"
                      THEN ret
                      ELSE <<"Binary", ret, BinaryOp(Top.operator), Top.expr>>
          IN IF ~is_at_end /\ peek \in Operators(f)
             THEN Invoke(advance,
                         [Top EXCEPT !.pc = "right", !.expr = expr, !.operator = peek],
                         Frame(Operand(f)), position)
             ELSE Return(position, expr, Seen)

\* the shape parse_equality, parse_comparison, parse_term and parse_factor share:
\* `let mut expr = operand()?; while check(op).. { operator; right; expr = Binary }`
BinaryLevel(f) ==
    \/ /\ At(f, "start")
       /\ Invoke(position, [Top EXCEPT !.pc = "left"], Frame(Operand(f)), read_index)
    \/ /\ At(f, "left") \/ At(f, "right")
       /\ LET expr == IF Top.pc = "left"
                      THEN ret
                      ELSE <<"Binary", Top.expr, BinaryOp(Top.operator), ret>>
          IN IF ~is_at_end /\ peek \in Operators(f)
             THEN Invoke(advance,
                         [Top EXCEPT !.pc = "right", !.expr = expr, !.operator = peek],
                         Frame(Operand(f)), position)
             ELSE Return(position, expr, Seen)

\* Parser::parse_equality
parse_equality == BinaryLevel("parse_equality")

\* Parser::parse_comparison
parse_comparison == BinaryLevel("parse_comparison")

\* Parser::parse_term
parse_term == BinaryLevel("parse_term")

\* Parser::parse_factor
parse_factor == BinaryLevel("parse_factor")

\* Parser::parse_unary
parse_unary ==
    \/ /\ At("parse_unary", "start")
       /\ IF check("Minus") \/ check("Bang")
          THEN Invoke(advance, [Top EXCEPT !.pc = "operand", !.operator = peek],
                      Frame("parse_unary"), position)
          ELSE TailCall(position, Frame("parse_primary"), Seen)
    \/ /\ At("parse_unary", "operand")
       /\ Return(position, <<"Unary", UnaryOp(Top.operator), ret>>, read_index)

\* Parser::parse_primary
parse_primary ==
    \/ /\ At("parse_primary", "start")
       /\ IF is_at_end
          THEN Panic
          ELSE CASE peek = "Number" ->
                        Return(advance, <<"Literal", <<"Number", position>> >>, position)
                 [] peek = "Identifier" ->
                        Goto(advance, [Top EXCEPT !.pc = "identifier", !.name = position],
                             position)
                 [] peek = "LParen" ->
                        Invoke(advance, [Top EXCEPT !.pc = "group"],
                               Frame("parse_expression"), position)
                 [] peek = "LBracket" ->
                        TailCall(position, Frame("parse_array"), position)
                 [] OTHER -> Fail("Unexpected token in expression", position)
    \/ /\ At("parse_primary", "identifier")
       /\ IF check("LParen")
          THEN TailCall(position, CallFrame(Top.name), position)
          ELSE Return(position, <<"Variable", Top.name>>, Seen)
    \/ /\ At("parse_primary", "group")
       /\ IF check("RParen")
          THEN Return(advance, ret, position)
          ELSE Fail("Expected ')'", Seen)

\* the list shared in shape by parse_function_call and parse_array:
\* `if !self.check(close) { loop { push(parse_expression()?); ',' } }`
ExpressionList(f, close) ==
    \/ /\ At(f, "items")
       /\ IF ~check(close)
          THEN Invoke(position, [Top EXCEPT !.pc = "item"], Frame("parse_expression"),
                      Seen)
          ELSE Goto(position, [Top EXCEPT !.pc = "close"], position)

\* Parser::parse_function_call
parse_function_call ==
    \/ /\ At("parse_function_call", "start")
       /\ IF check("LParen")
          THEN Goto(advance, [Top EXCEPT !.pc = "items"], position)
          ELSE Fail("Expected '('", Seen)
    \/ ExpressionList("parse_function_call", "RParen")
    \/ /\ At("parse_function_call", "item")
       /\ LET pushed == [Top EXCEPT !.args = Append(@, ret)]
          IN IF check("Comma")
             THEN Invoke(advance, [pushed EXCEPT !.pc = "item"],
                         Frame("parse_expression"), position)
             ELSE Goto(position, [pushed EXCEPT !.pc = "close"], Seen)
    \/ /\ At("parse_function_call", "close")
       /\ IF check("RParen")
          THEN Return(advance, <<"FunctionCall", Top.name, Top.args>>, position)
          ELSE Fail("Expected ')'", Seen)

\* Parser::parse_array
parse_array ==
    \/ /\ At("parse_array", "start")
       /\ IF check("LBracket")
          THEN Goto(advance, [Top EXCEPT !.pc = "items"], position)
          ELSE Fail("Expected '['", Seen)
    \/ ExpressionList("parse_array", "RBracket")
    \/ /\ At("parse_array", "item")
       /\ LET pushed == [Top EXCEPT !.elements = Append(@, ret)]
          IN IF check("Comma")
             THEN Invoke(advance, [pushed EXCEPT !.pc = "item"],
                         Frame("parse_expression"), position)
             ELSE Goto(position, [pushed EXCEPT !.pc = "close"], Seen)
    \/ /\ At("parse_array", "close")
       /\ IF check("RBracket")
          THEN Return(advance, <<"Array", Top.elements>>, position)
          ELSE Fail("Expected ']'", Seen)

\* Type::from_name(&name), of language::types, where parse_type ends: Ok, and
\* parse_type returns Ok(type), or Err, as the lexeme decides.  The cursor is
\* at pos by then: in the array branch `]` has been consumed before the call.
from_name(pos, type, read) ==
    \/ Return(pos, type, read)
    \/ /\ status' = "err"
       /\ error' = "Type::from_name"
       /\ position' = pos
       /\ stack' = <<>>
       /\ read_index' = read
       /\ entered' = <<>>
       /\ UNCHANGED <<tokens, ended, symbol_table, ret, driverVars>>

\* Parser::parse_type.  The size of an array type is n.parse().unwrap_or(0):
\* the number the literal's lexeme is (stood for by the literal), or the
\* default 0 when the lexeme is no usize.
parse_type ==
    \/ /\ At("parse_type", "start")
       /\ IF is_at_end
          THEN Panic
          ELSE CASE peek \in {"Field", "Bool", "U32"} ->
                        Return(advance, <<peek>>, position)
                 [] peek = "Identifier" ->
                        Goto(advance, [Top EXCEPT !.pc = "named", !.name = position],
                             position)
                 [] OTHER -> Fail("Expected type, found", position)
    \/ /\ At("parse_type", "named")
       /\ IF check("LBracket")
          THEN Invoke(advance, [Top EXCEPT !.pc = "size"], Frame("parse_expression"),
                      position)
          ELSE from_name(position, <<"Named", Top.name>>, Seen)
    \/ /\ At("parse_type", "size")
       /\ IF ret[1] # "Literal"
          THEN Fail("Expected array size", read_index)
          ELSE IF check("RBracket")
          THEN \E size \in {ret[2], <<"Default", 0>>} :
                  from_name(advance, <<"Array", <<"Named", Top.name>>, size>>,
                            position)
          ELSE Fail("Expected ']'", Seen)

\* the parser on its own: no compile call is running
DriverIdle ==
    /\ fcmc = [optimization_level |-> 2, target_system |-> "R1CS",
               verify_output |-> TRUE]
    /\ pc = "idle"
    /\ ast = NoAst
    /\ ir = NoGraph
    /\ circuit = NoCircuit
    /\ calls = <<>>
    /\ result = NoResult
    /\ ratio = NoRatio

InitParser == parser_new /\ DriverIdle

NextParser ==
    \/ reveal_token
    \/ parse_program
    \/ parse_function
    \/ parse_constraint
    \/ parse_block
    \/ parse_statement
    \/ parse_let_statement
    \/ parse_if_statement
    \/ parse_for_statement
    \/ parse_expression
    \/ parse_assignment
    \/ parse_equality
    \/ parse_comparison
    \/ parse_term
    \/ parse_factor
    \/ parse_unary
    \/ parse_primary
    \/ parse_function_call
    \/ parse_array
    \/ parse_type

SpecParser == InitParser /\ [][NextParser]_vars

----------------------------------------------------------------------------
(* Properties of FCMC::compile and optimization_ratio *)

\* the five pipeline stages in source order
StageRank(stage) ==
    CASE stage = "parse_source" -> 1
      [] stage = "from_ast" -> 2
      [] stage = "optimize" -> 3
      [] stage = "compile_to_target" -> 4
      [] stage = "verify_circuit" -> 5
      [] OTHER -> 0

\* the calls to pipeline stages (set_level is configuration, not a stage)
StageCalls == SelectSeq(calls, LAMBDA c : StageRank(c.stage) > 0)

LastCall == calls[Len(calls)]

\* C1: with verify_output set, a verify_circuit error is what compile returns and
\* never an Ok; every Ok result follows a verify_circuit call on the returned
\* circuit that succeeded, as the last call compile made.
C1_VerificationNeverSkipped ==
    /\ \A i \in 1..Len(calls) :
          (calls[i].stage = "verify_circuit" /\ calls[i].err # "none")
              => (result = Err(calls[i].err) /\ pc = "done")
    /\ (fcmc.verify_output /\ result.tag = "Ok")
          => /\ calls # <<>>
             /\ LastCall.stage = "verify_circuit"
             /\ LastCall.err = "none"
             /\ LastCall.circuit = result.circuit

\* C1 witness: the verifier rejected the circuit and compile returned its error
C1_Witness ==
    /\ fcmc.verify_output
    /\ pc = "done"
    /\ calls # <<>>
    /\ LastCall.stage = "verify_circuit"
    /\ LastCall.err = "VerificationError"
    /\ result = Err("VerificationError")

\* C2: compile fails fast: a stage that fails is the last call made, compile is
\* done and its result is that stage's error; a result that is an error is the
\* error of the last call; an Ok result means no call failed.
C2_FailFast ==
    /\ \A i \in 1..Len(calls) :
          calls[i].err # "none"
              => (i = Len(calls) /\ pc = "done" /\ result = Err(calls[i].err))
    /\ result.tag = "Err" => (calls # <<>> /\ LastCall.err = result.error)
    /\ result.tag = "Ok" => \A i \in 1..Len(calls) : calls[i].err = "none"

\* C2 witness: from_ast failed; optimize, the backend and the verifier never ran
C2_Witness ==
    /\ pc = "done"
    /\ Len(StageCalls) = 2
    /\ LastCall.stage = "from_ast"
    /\ LastCall.err = "SemanticError"
    /\ result = Err("SemanticError")

\* C3 (as claimed): every returned CompiledCircuit has
\* stats.optimized_nodes <= stats.original_nodes.
C3_OptimizedAtMostOriginal ==
    result.tag = "Ok" => result.stats.optimized_nodes <= result.stats.original_nodes

\* C4 (as claimed): the returned stats are the real counts: original_nodes is the
\* node count of the graph from_ast produced, optimized_nodes that of the
\* returned ir, constraint_count that of the returned circuit.
C4_StatsAreRealCounts ==
    (result.tag = "Ok" /\ calls # <<>>)
        => /\ result.stats.original_nodes = node_count(InitialGraph)
           /\ result.stats.optimized_nodes = node_count(result.ir)
           /\ result.stats.constraint_count = constraint_count(result.circuit)

\* C5 (as claimed): with verification enabled, before an Ok result the verifier
\* has run on the pre-optimization graph and on the post-optimization graph.
C5_VerifierSeesBothGraphs ==
    (result.tag = "Ok" /\ calls # <<>> /\ fcmc.verify_output)
        => \A g \in {InitialGraph, result.ir} :
              \E i \in 1..Len(calls) :
                 calls[i].stage = "verify_circuit" /\ calls[i].circuit.ir = g

\* C6: the stages run at most once each and in source order, and a stage starts
\* only after every stage before it returned Ok.
C6_StagesInOrder ==
    /\ \A i, j \in 1..Len(StageCalls) :
          i < j => StageRank(StageCalls[i].stage) < StageRank(StageCalls[j].stage)
    /\ \A i \in 1..Len(StageCalls) :
          i < Len(StageCalls) => StageCalls[i].err = "none"
    /\ StageCalls # <<>> => StageCalls[1].stage = "parse_source"
    /\ \A i \in 2..Len(StageCalls) :
          \/ StageRank(StageCalls[i].stage) = StageRank(StageCalls[i - 1].stage) + 1
          \/ /\ StageCalls[i - 1].stage = "from_ast"
             /\ StageCalls[i].stage = "compile_to_target"
             /\ ~optimization_enabled(fcmc)

\* C6 witness: a run that went through all five stages
C6_Witness ==
    /\ Len(StageCalls) = 5
    /\ result.tag = "Ok"

\* the calls made to the optimizer
OptimizerCalls == SelectSeq(calls, LAMBDA c : c.stage \in {"set_level", "optimize"})

\* compile is past step 3 of a run in which steps 1 and 2 succeeded
PastOptimize ==
    \/ pc \in {"backend", "verify", "return"}
    \/ pc = "done" /\ \E i \in 1..Len(calls) : StageRank(calls[i].stage) >= 3

\* C7: at level 0 the optimizer is never called and the backend is handed the
\* graph from_ast returned; at a level L > 0 the optimizer is called once,
\* set_level(L) with the configured L first, then optimize on from_ast's graph.
C7_OptimizationGatedByLevel ==
    /\ fcmc.optimization_level = 0
          => /\ OptimizerCalls = <<>>
             /\ \A i \in 1..Len(calls) :
                   calls[i].stage = "compile_to_target" => calls[i].ir = InitialGraph
    /\ (fcmc.optimization_level > 0 /\ PastOptimize)
          => /\ Len(OptimizerCalls) = 2
             /\ OptimizerCalls[1].stage = "set_level"
             /\ OptimizerCalls[1].level = fcmc.optimization_level
             /\ OptimizerCalls[2].stage = "optimize"
             /\ OptimizerCalls[2].ir = InitialGraph
    /\ (fcmc.optimization_level > 0 /\ ~PastOptimize /\ pc # "config")
          => OptimizerCalls = <<>>

\* C7 witness: a run at level 3 that optimized and returned Ok
C7_Witness ==
    /\ fcmc.optimization_level = 3
    /\ result.tag = "Ok"
    /\ Len(OptimizerCalls) = 2
    /\ OptimizerCalls[1].level = 3

\* what C8 says of one state: the returned ir is the graph the backend was
\* handed, the returned circuit is the one lowered from it and the one the
\* verifier checked
ReturnedArtifacts ==
    (result.tag = "Ok" /\ calls # <<>>)
        => /\ result.ir = CallsTo("compile_to_target")[1].ir
           /\ result.ir = ir
           /\ result.circuit = circuit
           /\ result.circuit.ir = result.ir
           /\ fcmc.verify_output
                 => result.circuit = CallsTo("verify_circuit")[1].circuit

\* C8: the result pairs the graph handed to compile_to_target with the circuit
\* verify_circuit checked; lowering and verification leave the graph unchanged;
\* the steps of compile leave the FCMC configuration unchanged.
C8_ResultPairsTheSameArtifacts ==
    /\ []ReturnedArtifacts
    /\ [][(pc \in {"backend", "verify", "return"}) => (ir' = ir)]_vars
    /\ [][(pc' # "config") => (fcmc' = fcmc)]_vars

\* C8 witness: an optimized graph was lowered, verified and returned
C8_Witness ==
    /\ result.tag = "Ok"
    /\ result.ir.id = "optimized"
    /\ result.ir # InitialGraph
    /\ fcmc.target_system = "Other"

\* floor(n * 2^k / d) in binary digits
Scaled(n, d, k) == Stripped(BitsOf(n \div d) \o FractionDigits(n % d, d, k).digits)

\* C9: optimization_ratio() is 0.0 when original_nodes is 0 and also when the
\* two counts are equal; otherwise it is a finite f64, negative exactly when
\* optimized_nodes > original_nodes, that is
\* (original_nodes - optimized_nodes) / original_nodes * 100 up to the rounding
\* of the division and of the multiplication: with the result mant * 2^exp
\* and x = |original_nodes - optimized_nodes| * 100 / original_nodes, mant
\* differs from x / 2^exp by less than 2 (two units in the last place).
C9_RatioFormula ==
    ratio # NoRatio
        => LET o == result.stats.original_nodes
               p == result.stats.optimized_nodes
               x == Abs(o - p) * 100
               floor == Scaled(x, o, -ratio.exp)
           IN IF o = 0 \/ o = p
              THEN ratio = Zero
              ELSE /\ ratio.kind = "finite"
                   /\ ratio.neg = (p > o)
                   /\ Len(ratio.mant) = MantissaBits
                   /\ ratio.mant[1] = 1
                   /\ ratio.exp < 0
                   /\ \/ ratio.mant \in {floor, Successor(floor),
                                         Successor(Successor(floor))}
                      \/ Successor(ratio.mant) = floor

\* C9 witness: the ratio of a circuit with original_nodes 3 and optimized_nodes
\* 2 is the f64 with the bits 4040aaaaaaaaaaaa (33.33333333333333), the
\* quotient having been rounded before the multiplication
C9_Witness ==
    /\ ratio # NoRatio
    /\ result.stats.original_nodes = 3
    /\ result.stats.optimized_nodes = 2
    /\ ratio = Finite(FALSE,
                      <<1, 0, 0, 0, 0>> \o [i \in 1..48 |-> IF i % 2 = 1 THEN 1 ELSE 0],
                      -47)

----------------------------------------------------------------------------
(* Properties of the parser *)

\* C10 (as claimed): on every token vector, every token read by the parser uses
\* an index i with 0 <= i < tokens.len(): no run of parse_program ends in an
\* out-of-bounds panic.
C10_EveryReadInBounds ==
    /\ status # "panic"
    /\ read_index # NoRead => (0 <= read_index /\ read_index < Len(tokens))

\* a call of f at program point l is inside a pass through the body of its loop
\* and has read the token the pass starts with
InIteration(f, l) ==
    \/ BeginsIteration(f, l) /\ l # "param_name"
    \/ f \in {"parse_function", "parse_constraint"} /\ l \in {"colon", "param_type"}

\* the frames whose pass through a loop body has ended: the running call once
\* the call it made in the pass has returned Ok, and every call a panic cut off
EndedIterations ==
    {d \in 1..Len(stack) :
        /\ InIteration(stack[d].fn, stack[d].pc)
        /\ \/ status = "running" /\ d = Len(stack)
           \/ status = "panic"}

\* C11 (as claimed): the cursor never goes back (it is never before the point
\* where an active call or loop pass began) and never exceeds tokens.len(), and
\* every pass through the body of a parsing loop that has ended, and did not end
\* by returning an Err, has advanced the cursor by at least one token.  (A
\* parameter list's pass that stops at `None => break` before it has read a
\* parameter is taken as the loop's exit test, not as a pass.)
C11_EveryIterationAdvances ==
    /\ \A d \in 1..Len(stack) : entered[d] <= position
    /\ position <= Len(tokens)
    /\ \A d \in EndedIterations : position > entered[d]

\* token i of the vector, counted from 0 as the parser counts
Token(i) == tokens[i + 1]

\* how many brackets opened in tokens lo .. k - 1 are still open at token k
Nesting(lo, k) ==
    Cardinality({i \in lo..(k - 1) : Token(i) \in {"LParen", "LBracket"}})
        - Cardinality({i \in lo..(k - 1) : Token(i) \in {"RParen", "RBracket"}})

\* the tokens of the given kinds in lo .. hi - 1 that stand between two operands
\* of the expression lo .. hi - 1 itself: outside every bracket, after the end
\* of an operand (which tells an infix `-` from a prefix `-`)
Infix(lo, hi, kinds) ==
    {k \in (lo + 1)..(hi - 1) :
        /\ Token(k) \in kinds
        /\ Nesting(lo, k) = 0
        /\ Token(k - 1) \in {"Identifier", "Number", "RParen", "RBracket"}}

First(S) == CHOOSE k \in S : \A j \in S : k <= j
Last(S) == CHOOSE k \in S : \A j \in S : j <= k

\* the binary operators by level, 1 binding least
Level(n) ==
    CASE n = 1 -> {"EqualsEquals", "BangEquals"}
      [] n = 2 -> {"Less", "LessEquals", "Greater", "GreaterEquals"}
      [] n = 3 -> {"Plus", "Minus"}
      [] n = 4 -> {"Star", "Slash", "Percent"}

\* The tree the stated grammar gives tokens lo .. hi - 1, found by splitting
\* the tokens at the operator that binds least, not by descent:
\*   an expression with an infix `=` is Assignment(left of the first `=`, rest);
\*   else, with an infix operator of the lowest level present, it is
\*   Binary(left of the last such operator, operator, right of it);
\*   else a prefix operator and its operand, or a primary.
RECURSIVE ExpectedExpression(_, _), ExpectedBinary(_, _, _), ExpectedUnary(_, _),
          ExpectedPrimary(_, _), ExpectedList(_, _)
ExpectedExpression(lo, hi) ==
    LET assigns == Infix(lo, hi, {"Equals"})
    IN IF assigns = {}
       THEN ExpectedBinary(1, lo, hi)
       ELSE <<"Assignment", ExpectedBinary(1, lo, First(assigns)),
              ExpectedExpression(First(assigns) + 1, hi)>>

ExpectedBinary(n, lo, hi) ==
    IF n > 4
    THEN ExpectedUnary(lo, hi)
    ELSE LET operators == Infix(lo, hi, Level(n))
         IN IF operators = {}
            THEN ExpectedBinary(n + 1, lo, hi)
            ELSE <<"Binary", ExpectedBinary(n, lo, Last(operators)),
                   BinaryOp(Token(Last(operators))),
                   ExpectedBinary(n + 1, Last(operators) + 1, hi)>>

ExpectedUnary(lo, hi) ==
    IF lo < hi /\ Token(lo) \in {"Minus", "Bang"}
    THEN <<"Unary", UnaryOp(Token(lo)), ExpectedUnary(lo + 1, hi)>>
    ELSE ExpectedPrimary(lo, hi)

ExpectedPrimary(lo, hi) ==
    CASE hi = lo + 1 /\ Token(lo) = "Number" -> <<"Literal", <<"Number", lo>> >>
      [] hi = lo + 1 /\ Token(lo) = "Identifier" -> <<"Variable", lo>>
      [] hi > lo + 2 /\ Token(lo) = "Identifier" /\ Token(lo + 1) = "LParen"
            /\ Token(hi - 1) = "RParen" ->
             <<"FunctionCall", lo, ExpectedList(lo + 2, hi - 1)>>
      [] hi > lo + 1 /\ Token(lo) = "LParen" /\ Token(hi - 1) = "RParen" ->
             ExpectedExpression(lo + 1, hi - 1)
      [] hi > lo + 1 /\ Token(lo) = "LBracket" /\ Token(hi - 1) = "RBracket" ->
             <<"Array", ExpectedList(lo + 1, hi - 1)>>
      [] OTHER -> <<"Malformed", lo, hi>>

ExpectedList(lo, hi) ==
    LET commas == Infix(lo, hi, {"Comma"})
    IN IF lo = hi THEN <<>>
       ELSE IF commas = {} THEN <<ExpectedExpression(lo, hi)>>
       ELSE <<ExpectedExpression(lo, First(commas))>>
                \o ExpectedList(First(commas) + 1, hi)

\* a step in which a call of parse_expression (its body, parse_assignment)
\* returns Ok
ReturnsExpression ==
    /\ status = "running"
    /\ stack # <<>>
    /\ Top.fn = "parse_assignment"
    /\ status' \in {"running", "ok"}
    /\ Len(stack') = Len(stack) - 1

\* C12: whenever parse_expression returns Ok, the tree it returns is the tree
\* of the tokens it consumed under the stated precedence (assignment, equality,
\* comparison, additive, multiplicative, prefix, primary), with the binary
\* levels left-associative, left operand first, assignment right-associative,
\* and a parenthesised expression standing for its inner expression; and it
\* has stopped before a token that is no `=` and no binary operator, so that
\* the whole of `a = b = c` or `a - b - c` is one expression.
C12_ExpressionPrecedence ==
    [][ReturnsExpression
          => /\ ret' = ExpectedExpression(entered[Len(stack)], position')
             /\ \/ position' >= Len(tokens')
                \/ tokens'[position' + 1]
                       \notin {"Equals"} \cup UNION {Level(n) : n \in 1..4}]_vars

\* C12 witness: the body of the third sample program,
\*   x = y = a == b != c < d >= e - f - g * h / -i % !(j + k),
\* has been parsed to the tree the claim describes
C12_Witness ==
    /\ status = "running"
    /\ Top.fn = "parse_constraint"
    /\ Top.pc = "body"
    /\ ret = <<"Assignment", <<"Variable", 5>>,
               <<"Assignment", <<"Variable", 7>>,
                 <<"Binary",
                   <<"Binary", <<"Variable", 9>>, "Eq", <<"Variable", 11>> >>,
                   "Ne",
                   <<"Binary",
                     <<"Binary", <<"Variable", 13>>, "Lt", <<"Variable", 15>> >>,
                     "Ge",
                     <<"Binary",
                       <<"Binary", <<"Variable", 17>>, "Sub", <<"Variable", 19>> >>,
                       "Sub",
                       <<"Binary",
                         <<"Binary",
                           <<"Binary", <<"Variable", 21>>, "Mul", <<"Variable", 23>> >>,
                           "Div",
                           <<"Unary", "Neg", <<"Variable", 26>> >> >>,
                         "Mod",
                         <<"Unary", "Not",
                           <<"Binary", <<"Variable", 30>>, "Add",
                             <<"Variable", 32>> >> >> >> >> >> >> >> >>
====
